---- MODULE Spec2Model ----
(***************************************************************************)
(* Onboarding sessions of app/api/onboarding.py: the file-per-session      *)
(* store, the event log, and the three POST handlers (iniciar, confirmar,  *)
(* cancelar).  The handlers are coroutines without a suspension point, so  *)
(* each one runs to completion on the event loop: one action per handler.  *)
(* The provider client (instagrapi.Client) and the account pool are        *)
(* external; their answers are inputs of the actions.                      *)
(***************************************************************************)
EXTENDS Integers, Sequences, FiniteSets, TLC

\* ------------------------------------------------------------------ bounds
MaxIds == 1          \* sessions started in one behaviour
MaxFails == 1        \* resumes that end in FAILURE, and appends of a second worker, in one behaviour
MaxTicks == 2        \* seconds the wall clock advances in one behaviour
StartTime == 86398   \* wall clock at Init, seconds of local time: 23:59:58
MaxRestarts == 1     \* restarts of the process in one behaviour

\* ------------------------------------------------------------------ values
\* Strings are sequences of characters, so that str.strip() is computed.
\* Python's None is the one-element sequence NoneVal (no character).
NoneVal == <<"<None>">>

\* The form values a start is called with.
Forms ==
    {[username |-> <<" ", "a">>, password |-> <<"p">>, proxy |-> NoneVal],
     [username |-> <<"a">>, password |-> <<"q">>, proxy |-> <<"x", " ">>]}

Codes == {<<"1", "2">>}

\* The ids a request can name: those uuid4 yields, and 0 for one it never yields.
Ids == 0..MaxIds

VARIABLES
    store,    \* _ONB_DIR: onboarding id -> the dict saved in <id>.json
    sink,     \* the calls account_pool.add_account has received, in order
    now,      \* the wall clock, seconds of local time
    nextId,   \* the next id uuid4() yields (ids are never reused)
    last,     \* the last request handled: handler, id, page returned, functions called
    orig,     \* history: the form values each start was called with
    fails,    \* history: the resumes of each id that ended in FAILURE
    cancelled, \* history: the ids whose record a cancel removed
    restarts, \* history: at each restart of the process, the ids then stored
    pend      \* an _append_log of another worker process between its load and its save

vars == <<store, sink, now, nextId, last, orig, fails, cancelled, restarts, pend>>

\* ------------------------------------------------------------------ strings
RECURSIVE lstrip(_)
lstrip(s) == IF s # <<>> /\ Head(s) = " " THEN lstrip(Tail(s)) ELSE s

RECURSIVE rstrip(_)
rstrip(s) == IF s # <<>> /\ s[Len(s)] = " " THEN rstrip(SubSeq(s, 1, Len(s) - 1)) ELSE s

strip(s) == rstrip(lstrip(s))

\* Python truthiness of an Optional[str]: None and "" are false.
Truthy(x) == x # NoneVal /\ x # <<>>

\* time.strftime("%H:%M:%S") of the clock reading t: <<HH, MM, SS>>.
strftime(t) == <<(t \div 3600) % 24, (t \div 60) % 60, t % 60>>

\* Order of two [HH:MM:SS] prefixes (zero padded, so string order is tuple order).
TsLeq(a, b) ==
    \/ a[1] < b[1]
    \/ a[1] = b[1] /\ a[2] < b[2]
    \/ a[1] = b[1] /\ a[2] = b[2] /\ a[3] <= b[3]

\* ------------------------------------------------------------------ session store
\* What _load_onb returns for a missing (or unreadable) file.
NoData == [missing |-> TRUE]

_save_onb(st, onb_id, data) ==
    IF onb_id \in DOMAIN st THEN [st EXCEPT ![onb_id] = data] ELSE (onb_id :> data) @@ st

_load_onb(st, onb_id) == IF onb_id \in DOMAIN st THEN st[onb_id] ELSE NoData

\* _delete_onb that leaves the file in place.
_delete_onb_noop(st, onb_id) == st

_delete_onb(st, onb_id) == [x \in DOMAIN st \ {onb_id} |-> st[x]]

_new_onb(st, onb_id, username, password, proxy, t) ==
    _save_onb(st, onb_id,
        [id |-> onb_id,
         username |-> strip(username),
         password |-> password,
         proxy |-> IF Truthy(proxy) THEN strip(proxy) ELSE NoneVal,
         status |-> "INIT",
         flow |-> "None",
         logs |-> <<>>,
         created_at |-> t])

\* A log line f"[{ts}] {msg}": the prefix, the message (its fixed text and the
\* value interpolated into it), and as history the clock reading it was made at.
Msg(tag, arg) == [tag |-> tag, arg |-> arg]

Entry(t, msg) == [ts |-> strftime(t), msg |-> msg, at |-> t]

\* _append_log that replaces the log by the new line.
_append_log_overwrite(st, onb_id, t, msg) ==
    LET data == _load_onb(st, onb_id)
    IN  IF data = NoData
        THEN st
        ELSE _save_onb(st, onb_id, [data EXCEPT !.logs = <<Entry(t, msg)>>])

\* _append_log that inserts the new line at the head of the log.
_append_log_prepend(st, onb_id, t, msg) ==
    LET data == _load_onb(st, onb_id)
    IN  IF data = NoData
        THEN st
        ELSE _save_onb(st, onb_id, [data EXCEPT !.logs = <<Entry(t, msg)>> \o @])

_append_log(st, onb_id, t, msg) ==
    LET data == _load_onb(st, onb_id)
    IN  IF data = NoData
        THEN st
        ELSE _save_onb(st, onb_id,
                IF "logs" \in DOMAIN data
                THEN [data EXCEPT !.logs = Append(@, Entry(t, msg))]
                ELSE data @@ [logs |-> <<Entry(t, msg)>>])

\* SetNeedCode that forgets the flow.
SetNeedCodeNoFlow(st, onb_id, flow) ==
    LET data == _load_onb(st, onb_id)
    IN  _save_onb(st, onb_id,
            IF data = NoData
            THEN [status |-> "NEED_CODE"]
            ELSE [data EXCEPT !.status = "NEED_CODE"])

\* data = _load_onb(onb_id) or {}; data["status"] = ...; data["flow"] = ...; _save_onb
SetNeedCode(st, onb_id, flow) ==
    LET data == _load_onb(st, onb_id)
    IN  _save_onb(st, onb_id,
            IF data = NoData
            THEN [status |-> "NEED_CODE", flow |-> flow]
            ELSE [data EXCEPT !.status = "NEED_CODE", !.flow = flow])

\* The last request: the handler, the id it was about, the page it returned, the
\* provider and pool functions it called, what login answered, and whether the call
\* the code went to answered True.
Req(op, id, out, calls, login, accepted) ==
    [op |-> op, id |-> id, out |-> out, calls |-> calls, login |-> login,
     accepted |-> accepted]

\* The same for a resume that found its session, with the flow it read from it.
ReqFlow(id, out, calls, login, accepted, flow) ==
    Req("resume", id, out, calls, login, accepted) @@ [flow |-> flow]

\* An _append_log between line 80 and line 85: the id, and the dict it loaded with
\* the new line appended; n counts the appends begun so far.
Idle(n) == [busy |-> FALSE, n |-> n]

Loaded(n, onb_id, data) == [busy |-> TRUE, n |-> n, id |-> onb_id, data |-> data]

\* ------------------------------------------------------------------ iniciar
\* What the provider does in ui_start_add_account: set_proxy returns or raises;
\* login returns True or False, raises TwoFactorRequired, ChallengeRequired or
\* something else, or asks challenge_code_handler for a code (_prelogin_handler
\* then logs and raises ChallengeRequired out of login); d seconds pass in login;
\* add_account returns added.
StartLogin ==
    {"True", "False", "TwoFactorRequired", "ChallengeRequired", "challenge_code_handler",
     "Exception"}

ProxyAnswers(proxy) == IF Truthy(proxy) THEN {"ok", "raise"} ELSE {"-"}

Elapsed == {d \in 0..1 : now + d <= StartTime + MaxTicks}

StartScript(set_proxy, login, added, d) ==
    [set_proxy |-> set_proxy, login |-> login, added |-> added, d |-> d]

\* Lines 156-187: the session is created and the attempt is logged up to the login.
StartPrologue(st, onb_id, username, password, proxy, p, t) ==
    LET s0 == _new_onb(st, onb_id, username, password, proxy, t)
        s1 == _append_log(s0, onb_id, t, Msg("Iniciando login para @", username))
        s2 == IF Truthy(proxy)
              THEN _append_log(s1, onb_id, t, Msg("Proxy informado: ", proxy))
              ELSE s1
        s3 == IF Truthy(proxy)
              THEN _append_log(s2, onb_id, t,
                       IF p.set_proxy = "ok"
                       THEN Msg("Proxy configurado com sucesso", <<>>)
                       ELSE Msg("[WARN] Proxy invalido: ", <<>>))
              ELSE s2
    IN  _append_log(s3, onb_id, t, Msg("Tentando login direto", <<>>))

\* Lines 175-182: the handler installed before the login.
_prelogin_handler(st, onb_id, t) ==
    _append_log(st, onb_id, t, Msg("Challenge detectado. Aguardando codigo na interface", <<>>))

\* StartSuccess that leaves the session file behind.
StartSuccessKeepsRecord(st, sk, onb_id, username, password, proxy, added, t) ==
    LET s1 == _append_log(st, onb_id, t, Msg("Login concluido com sucesso", <<>>))
        k1 == Append(sk, [onb |-> onb_id, username |-> username,
                          password |-> password, proxy |-> proxy])
        s2 == _append_log(s1, onb_id, t,
                  IF added THEN Msg("Conta adicionada ao pool", <<>>)
                  ELSE Msg("Conta ja no pool ou nao pode ser adicionada novamente", <<>>))
    IN  [store |-> s2, sink |-> k1, out |-> "SUCCESS"]

\* Lines 189-204: login returned a true value.
StartSuccess(st, sk, onb_id, username, password, proxy, added, t) ==
    LET s1 == _append_log(st, onb_id, t, Msg("Login concluido com sucesso", <<>>))
        k1 == Append(sk, [onb |-> onb_id, username |-> username,
                          password |-> password, proxy |-> proxy])
        s2 == _append_log(s1, onb_id, t,
                  IF added THEN Msg("Conta adicionada ao pool", <<>>)
                  ELSE Msg("Conta ja no pool ou nao pode ser adicionada novamente", <<>>))
    IN  [store |-> _delete_onb(s2, onb_id), sink |-> k1, out |-> "SUCCESS"]

\* StartTwoFactor that takes the challenge flow.
StartTwoFactorAsChallenge(st, sk, onb_id, t) ==
    LET s1 == SetNeedCode(st, onb_id, "CHALLENGE")
        s2 == _append_log(s1, onb_id, t, Msg("2FA requerido", <<>>))
    IN  [store |-> s2, sink |-> sk, out |-> "NEEDS_TWO_FACTOR"]

\* Lines 209-231: except TwoFactorRequired.
StartTwoFactor(st, sk, onb_id, t) ==
    LET s1 == SetNeedCode(st, onb_id, "TWO_FACTOR")
        s2 == _append_log(s1, onb_id, t, Msg("2FA requerido", <<>>))
    IN  [store |-> s2, sink |-> sk, out |-> "NEEDS_TWO_FACTOR"]

\* StartChallenge without the except clause of line 233: the ChallengeRequired ends
\* in the handler of line 258.
StartChallengeUncaught(st, sk, onb_id, t) ==
    [store |-> _append_log(st, onb_id, t, Msg("[ERRO] Falha ao iniciar o login: ", <<>>)),
     sink |-> sk, out |-> "FAILURE"]

\* Lines 233-256: except ChallengeRequired.
StartChallenge(st, sk, onb_id, t) ==
    LET s1 == SetNeedCode(st, onb_id, "CHALLENGE")
        s2 == _append_log(s1, onb_id, t, Msg("Challenge requerido", <<>>))
        s3 == _append_log(s2, onb_id, t, Msg("Dica: verifique tambem a pasta de SPAM", <<>>))
    IN  [store |-> s3, sink |-> sk, out |-> "NEEDS_CHALLENGE"]

\* StartFailure that returns the error page without logging the error.
StartFailureSilent(st, sk, onb_id, t) == [store |-> st, sink |-> sk, out |-> "FAILURE"]

\* StartFailure that removes the session it abandons.
StartFailureDeletes(st, sk, onb_id, t) ==
    [store |-> _delete_onb(_append_log(st, onb_id, t,
                               Msg("[ERRO] Falha ao iniciar o login: ", <<>>)),
                           onb_id),
     sink |-> sk, out |-> "FAILURE"]

\* Lines 258-267: except Exception (also the LoginRequired of line 207).
StartFailure(st, sk, onb_id, t) ==
    [store |-> _append_log(st, onb_id, t, Msg("[ERRO] Falha ao iniciar o login: ", <<>>)),
     sink |-> sk, out |-> "FAILURE"]

\* The provider and pool functions the handler calls, in order.
StartCalls(proxy, p) ==
    (IF Truthy(proxy) THEN <<"set_proxy">> ELSE <<>>)
    \o <<"login">>
    \o (IF p.login = "True" THEN <<"add_account">> ELSE <<>>)

ui_start_add_account(username, password, proxy, p) ==
    LET onb_id == nextId
        t1 == now + p.d
        s4 == StartPrologue(store, onb_id, username, password, proxy, p, now)
        r == CASE p.login = "True" ->
                    StartSuccess(s4, sink, onb_id, username, password, proxy, p.added, t1)
               [] p.login = "TwoFactorRequired" -> StartTwoFactor(s4, sink, onb_id, t1)
               [] p.login = "ChallengeRequired" -> StartChallenge(s4, sink, onb_id, t1)
               [] p.login = "challenge_code_handler" ->
                    StartChallenge(_prelogin_handler(s4, onb_id, t1), sink, onb_id, t1)
               [] OTHER -> StartFailure(s4, sink, onb_id, t1)
    IN  /\ nextId <= MaxIds
        /\ store' = r.store
        /\ sink' = r.sink
        /\ now' = t1
        /\ nextId' = nextId + 1
        /\ last' = Req("start", onb_id, r.out, StartCalls(proxy, p), p.login, FALSE)
        /\ orig' = _save_onb(orig, onb_id,
                       [username |-> username, password |-> password, proxy |-> proxy])
        /\ fails' = _save_onb(fails, onb_id, 0)
        /\ UNCHANGED <<cancelled, restarts, pend>>

Start ==
    \E f \in Forms :
        \E x \in ProxyAnswers(f.proxy), l \in StartLogin, added \in BOOLEAN, d \in Elapsed :
            /\ l # "True" => ~added
            /\ ui_start_add_account(f.username, f.password, f.proxy,
                                    StartScript(x, l, added, d))

\* ------------------------------------------------------------------ confirmar
\* What the provider does in ui_confirm_code.  TWO_FACTOR: login returns or
\* raises (TwoFactorRequired is expected there), two_factor_login(code) returns or
\* raises.  Otherwise: login may ask the installed handler for the code, then
\* returns or raises (ChallengeRequired is expected there); challenge_resolve(code)
\* returns, raises TypeError (then the keyword form is called) or raises something
\* else.  The answer of a call that is not made is "-".
Answers(login, two_factor_login, challenge_resolve, challenge_resolve_kw) ==
    [login |-> login, two_factor_login |-> two_factor_login,
     challenge_resolve |-> challenge_resolve, challenge_resolve_kw |-> challenge_resolve_kw]

TwoFactorAnswers ==
    {Answers("Exception", "-", "-", "-")}
    \cup {Answers(l, t, "-", "-") : l \in {"True", "False", "TwoFactorRequired"},
                                   t \in {"True", "False", "Exception"}}

ChallengeAnswers ==
    LET failed == {"False", "ChallengeRequired", "Exception"}
    IN  {Answers("True", "-", "-", "-")}
        \cup {Answers(l, "-", c, "-") : l \in failed, c \in {"True", "False", "Exception"}}
        \cup {Answers(l, "-", "TypeError", k) :
                  l \in failed, k \in {"True", "False", "Exception"}}

FlowAnswers(flow) == IF flow = "TWO_FACTOR" THEN TwoFactorAnswers ELSE ChallengeAnswers

\* The handler of the challenge branch is the only one the provider can ask.
HandlerAsked(flow) == IF flow = "TWO_FACTOR" THEN {FALSE} ELSE BOOLEAN

ConfirmScript(a, set_proxy, handler, added, d) ==
    [login |-> a.login, two_factor_login |-> a.two_factor_login,
     challenge_resolve |-> a.challenge_resolve,
     challenge_resolve_kw |-> a.challenge_resolve_kw,
     set_proxy |-> set_proxy, handler |-> handler, added |-> added, d |-> d]

\* TwoFactorOk that lets the TwoFactorRequired of the login leave the branch.
TwoFactorOkNotSwallowed(p) ==
    p.login \notin {"Exception", "TwoFactorRequired"} /\ p.two_factor_login = "True"

\* Lines 303-318: whether the TWO_FACTOR branch goes on to the registration.  An
\* exception of login other than TwoFactorRequired leaves the branch at once.
TwoFactorOk(p) == p.login # "Exception" /\ p.two_factor_login = "True"

\* Lines 303-320: what the TWO_FACTOR branch writes to the log.
ConfirmTwoFactor(st, onboarding_id, p, t) ==
    IF p.login = "Exception"
    THEN st
    ELSE IF p.two_factor_login = "True"
    THEN _append_log(st, onboarding_id, t, Msg("2FA validado com sucesso", <<>>))
    ELSE IF p.two_factor_login = "Exception"
    THEN _append_log(st, onboarding_id, t, Msg("[WARN] two_factor_login falhou: ", <<>>))
    ELSE st

\* Lines 329-335: the handler installed for the challenge branch.
_handler(st, onboarding_id, t) ==
    _append_log(st, onboarding_id, t, Msg("Instagram solicitou codigo via metodo: ", <<>>))

\* Lines 352-355: the positional call, and the keyword call after a TypeError.
Resolved(p) ==
    IF p.challenge_resolve = "TypeError" THEN p.challenge_resolve_kw ELSE p.challenge_resolve

\* ChallengeOk that ignores what the fallback answered.
ChallengeOkLoginOnly(p) == p.login = "True"

\* Lines 339-361: ok of the challenge branch.
ChallengeOk(p) == p.login = "True" \/ Resolved(p) = "True"

\* Lines 322-364: what the challenge branch writes to the log.
ConfirmChallenge(st, onboarding_id, p, t) ==
    LET s1 == IF p.handler THEN _handler(st, onboarding_id, t) ELSE st
        s2 == IF p.login = "Exception"
              THEN _append_log(s1, onboarding_id, t,
                       Msg("[WARN] login com handler falhou: ", <<>>))
              ELSE s1
        s3 == IF p.login # "True" /\ Resolved(p) = "Exception"
              THEN _append_log(s2, onboarding_id, t,
                       Msg("[WARN] challenge_resolve falhou: ", <<>>))
              ELSE s2
    IN  IF ChallengeOk(p)
        THEN _append_log(s3, onboarding_id, t, Msg("Challenge validado com sucesso", <<>>))
        ELSE s3

\* ConfirmSuccess that registers the account without its proxy.
ConfirmSuccessNoProxy(st, sk, onboarding_id, username, password, proxy, added, t) ==
    LET k1 == Append(sk, [onb |-> onboarding_id, username |-> username,
                          password |-> password, proxy |-> NoneVal])
    IN  [store |-> _delete_onb(st, onboarding_id), sink |-> k1, out |-> "SUCCESS"]

\* ConfirmSuccess that leaves the session file behind.
ConfirmSuccessKeepsRecord(st, sk, onboarding_id, username, password, proxy, added, t) ==
    LET k1 == Append(sk, [onb |-> onboarding_id, username |-> username,
                          password |-> password, proxy |-> proxy])
    IN  [store |-> st, sink |-> k1, out |-> "SUCCESS"]

\* ConfirmSuccess that marks the session DONE and keeps its file.
ConfirmSuccessMarksDone(st, sk, onboarding_id, username, password, proxy, added, t) ==
    LET k1 == Append(sk, [onb |-> onboarding_id, username |-> username,
                          password |-> password, proxy |-> proxy])
    IN  [store |-> [st EXCEPT ![onboarding_id].status = "DONE"], sink |-> k1,
         out |-> "SUCCESS"]

\* Lines 366-384: the account is registered and the session removed.
ConfirmSuccess(st, sk, onboarding_id, username, password, proxy, added, t) ==
    LET k1 == Append(sk, [onb |-> onboarding_id, username |-> username,
                          password |-> password, proxy |-> proxy])
        s1 == _append_log(st, onboarding_id, t,
                  IF added THEN Msg("Conta adicionada ao pool", <<>>)
                  ELSE Msg("Conta ja estava no pool ou nao pode ser registrada novamente",
                           <<>>))
    IN  [store |-> _delete_onb(s1, onboarding_id), sink |-> k1, out |-> "SUCCESS"]

\* ConfirmFailure that removes the session.
ConfirmFailureDeletes(st, sk, onboarding_id, t) ==
    [store |-> _delete_onb(_append_log(st, onboarding_id, t,
                               Msg("[ERRO] Falha na confirmacao do codigo: ", <<>>)),
                           onboarding_id),
     sink |-> sk, out |-> "FAILURE"]

\* Lines 386-404: except Exception.
ConfirmFailure(st, sk, onboarding_id, t) ==
    [store |-> _append_log(st, onboarding_id, t,
                   Msg("[ERRO] Falha na confirmacao do codigo: ", <<>>)),
     sink |-> sk, out |-> "FAILURE"]

\* The provider accepts the code of a resume: a call the code went to answers True
\* (in the challenge branch the code goes to login through the handler).
CodeAccepted(flow, a) ==
    IF flow = "TWO_FACTOR"
    THEN a.two_factor_login = "True"
    ELSE "True" \in {a.login, a.challenge_resolve, a.challenge_resolve_kw}

\* The provider and pool functions the handler calls, in order.
ConfirmCalls(proxy, p, ok) ==
    (IF Truthy(proxy) THEN <<"set_proxy">> ELSE <<>>)
    \o <<"login">>
    \o (IF p.two_factor_login # "-" THEN <<"two_factor_login">> ELSE <<>>)
    \o (IF p.challenge_resolve # "-" THEN <<"challenge_resolve">> ELSE <<>>)
    \o (IF p.challenge_resolve_kw # "-" THEN <<"challenge_resolve_kw">> ELSE <<>>)
    \o (IF ok THEN <<"add_account">> ELSE <<>>)

RECURSIVE TotalFails(_)
TotalFails(f) ==
    IF DOMAIN f = {} THEN 0
    ELSE LET x == CHOOSE y \in DOMAIN f : TRUE
         IN  f[x] + TotalFails([z \in DOMAIN f \ {x} |-> f[z]])

\* Lines 287-404, for a session that was found.
ConfirmFound(data, onboarding_id, code, p) ==
    LET username == data.username
        password == data.password
        proxy == data.proxy
        flow == data.flow
        t1 == now + p.d
        ok == IF flow = "TWO_FACTOR" THEN TwoFactorOk(p) ELSE ChallengeOk(p)
        s1 == _append_log(store, onboarding_id, now,
                  Msg("Recebido codigo. Tentando concluir ", <<flow>>))
        s2 == IF Truthy(proxy)
              THEN _append_log(s1, onboarding_id, now,
                       IF p.set_proxy = "ok"
                       THEN Msg("Proxy configurado novamente para concluir verificacao", <<>>)
                       ELSE Msg("[WARN] Proxy invalido ao confirmar: ", <<>>))
              ELSE s1
        s3 == IF flow = "TWO_FACTOR"
              THEN ConfirmTwoFactor(s2, onboarding_id, p, t1)
              ELSE ConfirmChallenge(s2, onboarding_id, p, t1)
        r == IF ok
             THEN ConfirmSuccess(s3, sink, onboarding_id, username, password, proxy,
                                 p.added, t1)
             ELSE ConfirmFailure(s3, sink, onboarding_id, t1)
    IN  /\ ok \/ (~p.added /\ TotalFails(fails) + pend.n < MaxFails)
        /\ store' = r.store
        /\ sink' = r.sink
        /\ now' = t1
        /\ last' = ReqFlow(onboarding_id, r.out, ConfirmCalls(proxy, p, ok), p.login,
                            CodeAccepted(flow, p), flow)
                    @@ [challenge_resolve |-> p.challenge_resolve]
        /\ fails' = IF r.out = "FAILURE"
                    THEN [fails EXCEPT ![onboarding_id] = @ + 1]
                    ELSE fails
        /\ UNCHANGED <<nextId, orig, cancelled, restarts, pend>>

\* ui_confirm_code without the check of lines 279-285: a missing session falls
\* through to the handler of line 386, which returns the failure page.
ui_confirm_code_unchecked(onboarding_id, code) ==
    LET data == _load_onb(store, onboarding_id)
    IN  IF data = NoData
        THEN /\ last' = Req("resume", onboarding_id, "FAILURE", <<>>, "-", FALSE)
             /\ UNCHANGED <<store, sink, now, nextId, orig, fails, cancelled, restarts, pend>>
        ELSE \E a \in FlowAnswers(data.flow), x \in ProxyAnswers(data.proxy),
                h \in HandlerAsked(data.flow), added \in BOOLEAN, d \in Elapsed :
                 ConfirmFound(data, onboarding_id, code, ConfirmScript(a, x, h, added, d))

ui_confirm_code(onboarding_id, code) ==
    LET data == _load_onb(store, onboarding_id)
    IN  IF data = NoData
        THEN /\ last' = Req("resume", onboarding_id, "NOT_FOUND", <<>>, "-", FALSE)
             /\ UNCHANGED <<store, sink, now, nextId, orig, fails, cancelled, restarts, pend>>
        ELSE \E a \in FlowAnswers(data.flow), x \in ProxyAnswers(data.proxy),
                h \in HandlerAsked(data.flow), added \in BOOLEAN, d \in Elapsed :
                 ConfirmFound(data, onboarding_id, code, ConfirmScript(a, x, h, added, d))

Confirm == \E onboarding_id \in Ids, code \in Codes : ui_confirm_code(onboarding_id, code)

\* ------------------------------------------------------------------ cancelar
ui_cancel(onboarding_id) ==
    LET data == _load_onb(store, onboarding_id)
    IN  /\ store' = IF data # NoData
                    THEN _delete_onb(_append_log(store, onboarding_id, now,
                                         Msg("Sessao cancelada pelo usuario", <<>>)),
                                     onboarding_id)
                    ELSE store
        /\ last' = Req("cancel", onboarding_id, "CANCELED", <<>>, "-", FALSE)
        /\ cancelled' = IF data # NoData THEN cancelled \cup {onboarding_id} ELSE cancelled
        /\ UNCHANGED <<sink, now, nextId, orig, fails, restarts, pend>>

Cancel == \E onboarding_id \in Ids : ui_cancel(onboarding_id)

\* ------------------------------------------------------------------ clock
\* A second passes between two requests.
Tick ==
    /\ now < StartTime + MaxTicks
    /\ now' = now + 1
    /\ last' = Req("tick", 0, "-", <<>>, "-", FALSE)
    /\ UNCHANGED <<store, sink, nextId, orig, fails, cancelled, restarts, pend>>

Init ==
    /\ store = <<>>
    /\ sink = <<>>
    /\ now = StartTime
    /\ nextId = 1
    /\ last = Req("none", 0, "-", <<>>, "-", FALSE)
    /\ orig = <<>>
    /\ fails = <<>>
    /\ cancelled = {}
    /\ restarts = <<>>
    /\ pend = Idle(0)

Next == Start \/ Confirm \/ Cancel \/ Tick

Spec == Init /\ [][Next]_vars

\* ------------------------------------------------------------------ restart
\* Restart that comes up with an empty session directory.
RestartEmptyStore ==
    /\ Len(restarts) < MaxRestarts
    /\ store' = <<>>
    /\ restarts' = Append(restarts, DOMAIN store)
    /\ last' = Req("restart", 0, "-", <<>>, "-", FALSE)
    /\ UNCHANGED <<sink, now, nextId, orig, fails, cancelled, pend>>

\* The process dies between two requests and a new one imports the module.  Every
\* Client and every other object of the old process is gone (the handlers keep
\* none between requests); lines 36-38 find the directory and its files as the
\* old process left them (mkdir with exist_ok).
Restart ==
    /\ Len(restarts) < MaxRestarts
    /\ restarts' = Append(restarts, DOMAIN store)
    /\ last' = Req("restart", 0, "-", <<>>, "-", FALSE)
    /\ UNCHANGED <<store, sink, now, nextId, orig, fails, cancelled, pend>>

\* The requests and the restart; the clock advances inside the provider calls.
NextRestart == Start \/ Confirm \/ Cancel \/ Restart

SpecRestart == Init /\ [][NextRestart]_vars
\* ------------------------------------------------------------------ second worker
\* A second worker process serving the same session directory runs _append_log
\* while this one handles requests: the file is read at line 80 and written at
\* line 85, and a request of this process can be handled in between.
\* Lines 80-84: load; return if there is no record; append the line to the dict.
AppendLoad(onb_id, msg) ==
    LET data == _load_onb(store, onb_id)
    IN  /\ ~pend.busy
        /\ TotalFails(fails) + pend.n < MaxFails
        /\ pend' = IF data = NoData
                    THEN Idle(pend.n + 1)
                    ELSE Loaded(pend.n + 1, onb_id,
                                [data EXCEPT !.logs = Append(@, Entry(now, msg))])
        /\ last' = Req("append", onb_id, "-", <<>>, "-", FALSE)
        /\ UNCHANGED <<store, sink, now, nextId, orig, fails, cancelled, restarts>>

\* Line 85: _save_onb(onb_id, data) writes the file, whether or not it still exists.
AppendSave ==
    /\ pend.busy
    /\ store' = _save_onb(store, pend.id, pend.data)
    /\ pend' = Idle(pend.n)
    /\ last' = Req("append", pend.id, "-", <<>>, "-", FALSE)
    /\ UNCHANGED <<sink, now, nextId, orig, fails, cancelled, restarts>>

AppendBegin ==
    \E onb_id \in Ids : AppendLoad(onb_id, Msg("[ERRO] Falha na confirmacao do codigo: ", <<>>))

\* The requests of this process and the append of the other one.
NextRace == Start \/ Cancel \/ Confirm \/ AppendBegin \/ AppendSave

SpecRace == Init /\ [][NextRace]_vars

\* ------------------------------------------------------------------ properties
IsPrefix(a, b) == Len(a) <= Len(b) /\ SubSeq(b, 1, Len(a)) = a

\* The registration calls the pool has received for the session onb_id.
Registrations(sk, onb_id) == {i \in 1..Len(sk) : sk[i].onb = onb_id}

HasEntry(logs, tag) == \E i \in 1..Len(logs) : logs[i].msg.tag = tag

\* C1: a start whose provider login reports success returns SUCCESS, makes exactly
\* one registration call during that start, and leaves no record for the id it
\* created.
C1_StartSuccess ==
    [][last'.op = "start" /\ last'.login = "True"
       => /\ last'.out = "SUCCESS"
          /\ last'.id = nextId
          /\ Len(sink') = Len(sink) + 1
          /\ Registrations(sink', last'.id) = {Len(sink')}
          /\ last'.id \notin DOMAIN store']_vars

C1_Witness ==
    /\ last.op = "start" /\ last.out = "SUCCESS"
    /\ last.id \notin DOMAIN store
    /\ Cardinality(Registrations(sink, last.id)) = 1

\* C2: a start whose provider login raises a verification signal returns the
\* matching waiting outcome and leaves the session stored with status NEED_CODE
\* and the matching flow (two-factor required: NEEDS_TWO_FACTOR, TWO_FACTOR;
\* challenge required: NEEDS_CHALLENGE, CHALLENGE); the log has an entry about the
\* requirement and the pool has not been called.
C2_StartSuspends ==
    [][last'.op = "start"
       /\ last'.login \in {"TwoFactorRequired", "ChallengeRequired", "challenge_code_handler"}
       => /\ last'.id \in DOMAIN store' \ DOMAIN store
          /\ store'[last'.id].status = "NEED_CODE"
          /\ sink' = sink
          /\ IF last'.login = "TwoFactorRequired"
             THEN /\ last'.out = "NEEDS_TWO_FACTOR"
                  /\ store'[last'.id].flow = "TWO_FACTOR"
                  /\ HasEntry(store'[last'.id].logs, "2FA requerido")
             ELSE /\ last'.out = "NEEDS_CHALLENGE"
                  /\ store'[last'.id].flow = "CHALLENGE"
                  /\ HasEntry(store'[last'.id].logs, "Challenge requerido")]_vars

C2_Witness ==
    /\ last.op = "start" /\ last.out = "NEEDS_CHALLENGE"
    /\ last.id \in DOMAIN store
    /\ store[last.id].status = "NEED_CODE" /\ store[last.id].flow = "CHALLENGE"
    /\ sink = <<>>

\* C3: a resume on a NEED_CODE session whose code is not accepted returns FAILURE
\* and leaves the session stored with status NEED_CODE, the same flow and a log
\* longer by at least one entry, however many such resumes came before; a resume
\* whose code the provider accepts returns SUCCESS and deletes the session.
C3_ResumeRetry ==
    [][\A id \in DOMAIN store :
          last'.op = "resume" /\ last'.id = id /\ store[id].status = "NEED_CODE"
          => IF last'.accepted
             THEN last'.out = "SUCCESS" /\ id \notin DOMAIN store'
             ELSE /\ last'.out = "FAILURE"
                  /\ id \in DOMAIN store'
                  /\ store'[id].status = "NEED_CODE"
                  /\ store'[id].flow = store[id].flow
                  /\ Len(store'[id].logs) >= Len(store[id].logs) + 1
                  /\ IsPrefix(store[id].logs, store'[id].logs)]_vars

C3_Witness ==
    /\ last.op = "resume" /\ last.out = "SUCCESS"
    /\ last.id \in DOMAIN fails /\ fails[last.id] >= 1
    /\ last.id \notin DOMAIN store

\* C4: a resume for an id without a record returns NOT_FOUND and changes nothing:
\* no record is created or modified, nothing is logged, the provider and the pool
\* are not called.
C4_ResumeNotFound ==
    [][last'.op = "resume" /\ last'.id \notin DOMAIN store
       => /\ last'.out = "NOT_FOUND"
          /\ last'.calls = <<>>
          /\ store' = store
          /\ sink' = sink]_vars

C4_Witness ==
    /\ last.op = "resume" /\ last.out = "NOT_FOUND" /\ last.calls = <<>>
    /\ last.id \notin DOMAIN store
    /\ DOMAIN store # {}

\* C5: cancel on a stored session deletes its record and never calls the pool;
\* cancel on an id without a record (a second cancel included) returns the same
\* page and leaves the whole store unchanged.
C5_CancelIdempotent ==
    [][last'.op = "cancel"
       => /\ last'.out = "CANCELED"
          /\ last'.id \notin DOMAIN store'
          /\ sink' = sink
          /\ \A other \in DOMAIN store \ {last'.id} :
                 other \in DOMAIN store' /\ store'[other] = store[other]
          /\ last'.id \notin DOMAIN store => store' = store]_vars

C5_Witness ==
    /\ last.op = "cancel" /\ last.out = "CANCELED"
    /\ last.id \in cancelled
    /\ last.id \notin DOMAIN store

\* The values _new_onb stored for the form values of a start.
Stored(f) ==
    [username |-> strip(f.username), password |-> f.password,
     proxy |-> IF Truthy(f.proxy) THEN strip(f.proxy) ELSE NoneVal]

Triple(e) == [username |-> e.username, password |-> e.password, proxy |-> e.proxy]

\* The last request was a resume that completed a suspended start.
ResumedOk ==
    /\ last.op = "resume" /\ last.out = "SUCCESS"
    /\ last.flow \in {"CHALLENGE", "TWO_FACTOR"}

\* C6 as stated: after a successful resume the pool has been called once for the
\* session, with the very triple that was passed to start.
C6_Original ==
    ResumedOk =>
        /\ Cardinality(Registrations(sink, last.id)) = 1
        /\ \A i \in Registrations(sink, last.id) : Triple(sink[i]) = orig[last.id]
        /\ last.id \notin DOMAIN store

\* C6 (amended): after a successful resume the pool has been called exactly once
\* for the session, with the triple as the session record holds it - username
\* stripped, password unchanged, proxy stripped and None when empty - and the
\* record is deleted.
C6_ResumeRegistersStored ==
    ResumedOk =>
        /\ Cardinality(Registrations(sink, last.id)) = 1
        /\ \A i \in Registrations(sink, last.id) : Triple(sink[i]) = Stored(orig[last.id])
        /\ last.id \notin DOMAIN store

C6_Witness ==
    /\ ResumedOk
    /\ \E i \in Registrations(sink, last.id) :
           /\ Triple(sink[i]) = Stored(orig[last.id])
           /\ Truthy(sink[i].proxy)

\* C7: in every stored record, flow is set exactly when status is NEED_CODE, and
\* then it is CHALLENGE or TWO_FACTOR.
C7_FlowIffNeedCode ==
    \A id \in DOMAIN store :
        /\ store[id].flow # "None" <=> store[id].status = "NEED_CODE"
        /\ store[id].flow \in {"None", "CHALLENGE", "TWO_FACTOR"}

C7_Witness ==
    \E id \in DOMAIN store :
        /\ store[id].status = "NEED_CODE" /\ store[id].flow = "TWO_FACTOR"
        /\ fails[id] >= 1

\* C8: every stored record has status INIT or NEED_CODE; success and cancellation
\* remove the record in the same request.
C8_OnlyPendingStored ==
    /\ \A id \in DOMAIN store : store[id].status \in {"INIT", "NEED_CODE"}
    /\ last.out \in {"SUCCESS", "CANCELED"} => last.id \notin DOMAIN store

C8_Witness ==
    /\ last.op = "resume" /\ last.out = "SUCCESS"
    /\ Registrations(sink, last.id) # {}
    /\ last.id \notin DOMAIN store
    /\ cancelled = {}

\* C9: the log of a session only grows at its end: across every step that leaves
\* the record stored, the old log is a prefix of the new one.
C9_LogAppendOnly ==
    [][\A id \in DOMAIN store :
          id \in DOMAIN store' => IsPrefix(store[id].logs, store'[id].logs)]_vars

C9_Witness ==
    \E id \in DOMAIN store :
        \E i, j \in 1..Len(store[id].logs) :
            /\ i < j
            /\ store[id].logs[i].msg.tag = "Tentando login direto"
            /\ store[id].logs[j].msg.tag = "[ERRO] Falha na confirmacao do codigo: "

Day(t) == t \div 86400

C11_InitNotResumable ==
    [][\A id \in DOMAIN store :
          last'.op = "resume" /\ last'.id = id /\ store[id].status = "INIT"
          => /\ last'.out # "SUCCESS"
             /\ sink' = sink
             /\ id \in DOMAIN store']_vars

\* C12: a request for an id without a record is answered NOT_FOUND by cancel as
\* by resume: not CANCELED, the answer of cancelling a stored session, and not
\* FAILURE.
C12_MissingDistinct ==
    [][last'.op \in {"resume", "cancel"} /\ last'.id \notin DOMAIN store
       => last'.out = "NOT_FOUND"]_vars

\* The session id was stored when the process restarted.
Survived(id) == \E i \in 1..Len(restarts) : id \in restarts[i]

\* C13: a restart of the process leaves every session record as it was, and a
\* resume on a suspended session that went through a restart reads flow and the
\* triple from the record alone and ends as it does without a restart: SUCCESS
\* with the stored triple registered and the record deleted when the provider
\* accepts the code, FAILURE with the session still NEED_CODE and its flow kept
\* when it does not.
C13_SurvivesRestart ==
    [][/\ last'.op = "restart" => store' = store
       /\ \A id \in DOMAIN store :
             /\ Survived(id) /\ store[id].status = "NEED_CODE"
             /\ last'.op = "resume" /\ last'.id = id
             => /\ last'.flow = store[id].flow
                /\ IF last'.accepted
                   THEN /\ last'.out = "SUCCESS"
                        /\ sink' = Append(sink, [onb |-> id] @@ Triple(store[id]))
                        /\ id \notin DOMAIN store'
                   ELSE /\ last'.out = "FAILURE"
                        /\ sink' = sink
                        /\ id \in DOMAIN store'
                        /\ store'[id].status = "NEED_CODE"
                        /\ store'[id].flow = store[id].flow]_vars

C13_Witness ==
    /\ last.op = "resume" /\ last.out = "SUCCESS" /\ last.flow = "TWO_FACTOR"
    /\ Survived(last.id)
    /\ Registrations(sink, last.id) # {}

\* C14: a start or a resume that returns FAILURE has, in the same request and
\* while the record exists, appended an error entry to the log of its session:
\* the log is longer than before the request and its last entry is the error.
C14_FailureLogged ==
    [][last'.out = "FAILURE" /\ last'.id \in DOMAIN store'
       => LET logs == store'[last'.id].logs
              before == IF last'.id \in DOMAIN store THEN Len(store[last'.id].logs) ELSE 0
          IN  /\ Len(logs) > before
              /\ logs[Len(logs)].at = now'
              /\ logs[Len(logs)].msg.tag =
                     IF last'.op = "start"
                     THEN "[ERRO] Falha ao iniciar o login: "
                     ELSE "[ERRO] Falha na confirmacao do codigo: "]_vars

C14_Witness ==
    /\ last.op = "resume" /\ last.out = "FAILURE"
    /\ last.id \in DOMAIN store
    /\ LET logs == store[last.id].logs
       IN  logs[Len(logs)].msg.tag = "[ERRO] Falha na confirmacao do codigo: "

\* The provider functions among the calls of a request, in order.
ProviderCalls(calls) == SelectSeq(calls, LAMBDA c : c \notin {"set_proxy", "add_account"})

\* C16: a start ends in the one step of its request with exactly one of SUCCESS,
\* NEEDS_CHALLENGE, NEEDS_TWO_FACTOR and FAILURE, whatever the provider does; when
\* the provider asks the challenge callback for a code during the login, the
\* installed handler logs and aborts the login, no provider call follows, and the
\* start returns NEEDS_CHALLENGE with the session NEED_CODE and flow CHALLENGE.
C16_StartNeverWaits ==
    [][last'.op = "start"
       => /\ last'.out \in {"SUCCESS", "NEEDS_CHALLENGE", "NEEDS_TWO_FACTOR", "FAILURE"}
          /\ last'.login = "challenge_code_handler"
             => /\ last'.out = "NEEDS_CHALLENGE"
                /\ ProviderCalls(last'.calls) = <<"login">>
                /\ sink' = sink
                /\ last'.id \in DOMAIN store'
                /\ store'[last'.id].status = "NEED_CODE"
                /\ store'[last'.id].flow = "CHALLENGE"
                /\ HasEntry(store'[last'.id].logs,
                            "Challenge detectado. Aguardando codigo na interface")]_vars

C16_Witness ==
    /\ last.op = "start" /\ last.login = "challenge_code_handler"
    /\ last.out = "NEEDS_CHALLENGE"
    /\ last.id \in DOMAIN store
    /\ HasEntry(store[last.id].logs, "Challenge detectado. Aguardando codigo na interface")

C18_TwoFactorBranch ==
    [][\A id \in DOMAIN store :
          last'.op = "resume" /\ last'.id = id /\ store[id].flow = "TWO_FACTOR"
          => LET pc == ProviderCalls(last'.calls)
             IN  /\ pc \in {<<"login">>, <<"login", "two_factor_login">>}
                 /\ last'.login \in {"True", "False", "TwoFactorRequired"}
                    => pc = <<"login", "two_factor_login">>
                 /\ last'.out = "SUCCESS" <=> last'.accepted
                 /\ last'.out \in {"SUCCESS", "FAILURE"}
                 /\ last'.out = "SUCCESS"
                    => /\ Len(sink') = Len(sink) + 1
                       /\ sink'[Len(sink')].onb = id
                       /\ id \notin DOMAIN store'
                 /\ last'.out = "FAILURE"
                    => /\ sink' = sink
                       /\ id \in DOMAIN store'
                       /\ store'[id].status = "NEED_CODE"
                       /\ store'[id].flow = "TWO_FACTOR"]_vars

C18_Witness ==
    /\ last.op = "resume" /\ last.out = "SUCCESS" /\ last.flow = "TWO_FACTOR"
    /\ last.login = "TwoFactorRequired"
    /\ ProviderCalls(last.calls) = <<"login", "two_factor_login">>

\* C19: in a resume on a CHALLENGE session the provider calls are, in order: the
\* login (with the handler that returns the code); challenge_resolve(code) exactly
\* when that login did not return True; challenge_resolve(code=code) exactly when
\* the positional call raised TypeError.  The resume returns SUCCESS exactly when
\* the login or the fallback returned True; otherwise FAILURE, and the session
\* stays NEED_CODE with flow CHALLENGE.
C19_ChallengeOrder ==
    [][\A id \in DOMAIN store :
          last'.op = "resume" /\ last'.id = id /\ store[id].flow = "CHALLENGE"
          => LET pc == ProviderCalls(last'.calls)
             IN  /\ pc \in {<<"login">>, <<"login", "challenge_resolve">>,
                            <<"login", "challenge_resolve", "challenge_resolve_kw">>}
                 /\ Len(pc) >= 2 <=> last'.login # "True"
                 /\ Len(pc) = 3 <=> last'.challenge_resolve = "TypeError"
                 /\ last'.out = "SUCCESS" <=> last'.accepted
                 /\ last'.out \in {"SUCCESS", "FAILURE"}
                 /\ last'.out = "SUCCESS" => id \notin DOMAIN store'
                 /\ last'.out = "FAILURE"
                    => /\ sink' = sink
                       /\ id \in DOMAIN store'
                       /\ store'[id].status = "NEED_CODE"
                       /\ store'[id].flow = "CHALLENGE"]_vars

C19_Witness ==
    /\ last.op = "resume" /\ last.out = "SUCCESS" /\ last.flow = "CHALLENGE"
    /\ last.challenge_resolve = "TypeError"
    /\ ProviderCalls(last.calls) = <<"login", "challenge_resolve", "challenge_resolve_kw">>

\* C20: with every request handled to its end before the next begins, the pool
\* has received at most one registration for each session id, and none for a
\* session that was cancelled.
C20_AtMostOneRegistration ==
    \A id \in 1..(nextId - 1) :
        /\ Cardinality(Registrations(sink, id)) <= 1
        /\ id \in cancelled => Registrations(sink, id) = {}

C20_Witness ==
    /\ last.op = "resume" /\ last.out = "NOT_FOUND"
    /\ Cardinality(Registrations(sink, last.id)) = 1
    /\ fails[last.id] >= 1

\* C15: an append for a session that no longer exists changes nothing, also when
\* the record is deleted between the load and the save of the append: no record
\* is created for an id whose record is gone (ids are never issued twice, so an
\* id below nextId without a record is one that was deleted).
C15_NoReappear ==
    [][\A id \in 1..(nextId - 1) :
          id \notin DOMAIN store => id \notin DOMAIN store']_vars
====
